---- MODULE Spec2Model ----
(***************************************************************************)
(* A model of coveralls/api.py: the Coveralls client object, its           *)
(* configuration (file, keyword arguments, environment, CI provider), the  *)
(* memoized report built by create_data, merge, create_report and wear.    *)
(*                                                                         *)
(* Python values are encoded as follows.  A str is a TLA+ string, and the  *)
(* None of an optional string is the reserved string None.  A dict is a    *)
(* function whose domain is its set of keys, {} is <<>>, and the None of   *)
(* an optional dict (self._data, extra) is the reserved value NoneObj.  A  *)
(* list is a sequence.  In the serializer text is a sequence of one        *)
(* character strings.                                                      *)
(***************************************************************************)
EXTENDS Naturals, Sequences, FiniteSets, TLC

VARIABLES
    env,              \* os.environ: variable name -> value, None when unset
    args,             \* what the constructor is called with, and the config file
    ctor,             \* "new", "ok" (constructed) or "raised"
    config,           \* self.config
    _token_required,  \* self._token_required
    _data,            \* self._data: NoneObj, or [id |-> object identity, d |-> dict]
    allocs,           \* number of report dicts allocated so far (identities)
    ret,              \* outcome of the last call: a record with at least op
    first,            \* history: the first report a create_data call returned
    report,           \* serializer: the data create_report serializes
    json_string,      \* serializer: create_report's json_string
    log_string        \* serializer: the text create_report sends to log.debug

vars == <<env, args, ctor, config, _token_required, _data, allocs, ret, first,
          report, json_string, log_string>>

\* ---------------------------------------------------------------- values

None == "<None>"
NoneObj == [py_none |-> TRUE]

\* bool(v) of an optional string
Truthy(v) == v # None /\ v # ""

\* d.get(k, default)
Get(d, k, default) == IF k \in DOMAIN d THEN d[k] ELSE default

\* d[k] = v
Set(d, k, v) == [x \in DOMAIN d \cup {k} |-> IF x = k THEN v ELSE d[x]]

\* d.update(e)
Update(d, e) ==
    [k \in DOMAIN d \cup DOMAIN e |-> IF k \in DOMAIN e THEN e[k] ELSE d[k]]

\* str.lower() on the values COVERALLS_PARALLEL takes in the model
Lower(s) == CASE s = "TRUE" -> "true"
              [] s = "True" -> "true"
              [] OTHER -> s

\* s.split('/')[-1] on the values CI_PULL_REQUEST takes in the model
LastSegment(s) == CASE s = "https://github.com/o/r/pull/7" -> "7"
                    [] s = "https://github.com/o/r/pull/" -> ""
                    [] OTHER -> s

\* ----------------------------------------------------------- environment

EnvVars == {"COVERALLS_REPO_TOKEN", "COVERALLS_PARALLEL",
            "APPVEYOR", "APPVEYOR_BUILD_ID", "APPVEYOR_PULL_REQUEST_NUMBER",
            "APPVEYOR_REPO_BRANCH",
            "BUILDKITE", "BUILDKITE_JOB_ID", "BUILDKITE_BRANCH",
            "CIRCLECI", "CIRCLE_BUILD_NUM", "CI_PULL_REQUEST", "CIRCLE_BRANCH",
            "TRAVIS", "TRAVIS_JOB_ID", "TRAVIS_BRANCH", "CI_BRANCH"}

\* an environment that sets the variables of f and leaves the others unset
EnvWith(f) == [v \in EnvVars |-> IF v \in DOMAIN f THEN f[v] ELSE None]

EmptyEnv == [v \in EnvVars |-> None]

\* os.environ.get(k)
EnvGet(e, k) == e[k]

\* os.environ.get(k, default)
EnvGetDefault(e, k, default) == IF e[k] = None THEN default ELSE e[k]

\* ------------------------------------------------------- CI environment

load_config_from_appveyor(e) ==
    <<"appveyor", EnvGet(e, "APPVEYOR_BUILD_ID"),
      EnvGet(e, "APPVEYOR_PULL_REQUEST_NUMBER")>>

load_config_from_buildkite(e) ==
    <<"buildkite", EnvGet(e, "BUILDKITE_JOB_ID"), None>>

load_config_from_circle(e) ==
    LET last == LastSegment(EnvGetDefault(e, "CI_PULL_REQUEST", ""))
        pr == IF Truthy(last) THEN last ELSE None
    IN  <<"circle-ci", EnvGet(e, "CIRCLE_BUILD_NUM"), pr>>

load_config_from_travis(e) ==
    <<"travis-ci", EnvGet(e, "TRAVIS_JOB_ID"), None>>

load_config_from_unknown == <<"coveralls-python", None, None>>

\* load_config_from_ci_environment with the providers tried in another order
load_config_from_ci_environment_travis_first(tr, e) ==
    IF Truthy(EnvGet(e, "TRAVIS"))
    THEN [value |-> load_config_from_travis(e), token_required |-> FALSE]
    ELSE IF Truthy(EnvGet(e, "CIRCLECI"))
    THEN [value |-> load_config_from_circle(e), token_required |-> FALSE]
    ELSE IF Truthy(EnvGet(e, "BUILDKITE"))
    THEN [value |-> load_config_from_buildkite(e), token_required |-> tr]
    ELSE IF Truthy(EnvGet(e, "APPVEYOR"))
    THEN [value |-> load_config_from_appveyor(e), token_required |-> tr]
    ELSE [value |-> load_config_from_unknown, token_required |-> tr]

\* The returned tuple, and self._token_required as the call leaves it
\* (tr is its value before the call).
load_config_from_ci_environment(tr, e) ==
    IF Truthy(EnvGet(e, "APPVEYOR"))
    THEN [value |-> load_config_from_appveyor(e), token_required |-> tr]
    ELSE IF Truthy(EnvGet(e, "BUILDKITE"))
    THEN [value |-> load_config_from_buildkite(e), token_required |-> tr]
    ELSE IF Truthy(EnvGet(e, "CIRCLECI"))
    THEN [value |-> load_config_from_circle(e), token_required |-> FALSE]
    ELSE IF Truthy(EnvGet(e, "TRAVIS"))
    THEN [value |-> load_config_from_travis(e), token_required |-> FALSE]
    ELSE [value |-> load_config_from_unknown, token_required |-> tr]

\* self.config after load_config_from_environment
load_config_from_environment(c, e) ==
    LET repo_token == EnvGet(e, "COVERALLS_REPO_TOKEN")
        c1 == IF Truthy(repo_token) THEN Set(c, "repo_token", repo_token) ELSE c
    IN  IF Lower(EnvGetDefault(e, "COVERALLS_PARALLEL", "")) = "true"
        THEN Set(c1, "parallel", TRUE)
        ELSE c1

\* ensure_token that ignores self._token_required
ensure_token_always(c, tr) == ~Truthy(Get(c, "repo_token", None))

\* TRUE when ensure_token raises CoverallsException
ensure_token(c, tr) == ~(Truthy(Get(c, "repo_token", None)) \/ ~tr)

\* __init__ with the config file applied over the keyword arguments
init_file_last(token_required, file, kwargs, e) ==
    LET c0 == Update(kwargs, file)
        c1 == load_config_from_environment(c0, e)
        ci == load_config_from_ci_environment(token_required, e)
        c2 == Set(c1, "service_name", Get(c1, "service_name", ci.value[1]))
        c3 == IF Truthy(ci.value[2]) THEN Set(c2, "service_job_id", ci.value[2]) ELSE c2
        c4 == IF Truthy(ci.value[3]) THEN Set(c3, "service_pull_request", ci.value[3]) ELSE c3
    IN  [config |-> c4, token_required |-> ci.token_required,
         raised |-> ensure_token(c4, ci.token_required)]

\* Coveralls.__init__(token_required, **kwargs), file being what
\* load_config_from_file returned: the fields of the new object and whether
\* ensure_token raised.
__init__(token_required, file, kwargs, e) ==
    LET c0 == Update(file, kwargs)
        c1 == load_config_from_environment(c0, e)
        ci == load_config_from_ci_environment(token_required, e)
        c2 == Set(c1, "service_name", Get(c1, "service_name", ci.value[1]))
        c3 == IF Truthy(ci.value[2]) THEN Set(c2, "service_job_id", ci.value[2]) ELSE c2
        c4 == IF Truthy(ci.value[3]) THEN Set(c3, "service_pull_request", ci.value[3]) ELSE c3
    IN  [config |-> c4, token_required |-> ci.token_required,
         raised |-> ensure_token(c4, ci.token_required)]

\* ------------------------------------------------------------- git_info

\* a or b
Or(a, b) == IF Truthy(a) THEN a ELSE b

\* Return codes a git subprocess ends with in the model.
ReturnCodes == {0, 128}

\* One run of git_info: the return code of each kind of git command, and what
\* rev-parse prints.
GitRuns == [rev_parse : ReturnCodes, remote : ReturnCodes, log : ReturnCodes,
            rev : {"master"}]

GitOk == [rev_parse |-> 0, remote |-> 0, log |-> 0, rev |-> "master"]

\* The lines `git remote -v` prints, split in their three columns.
RemoteLines == << [name |-> "origin", url |-> "https://x", kind |-> "(fetch)"],
                  [name |-> "origin", url |-> "https://x", kind |-> "(push)"] >>

\* run_command(*args): raises CoverallsException on a non-zero return code,
\* else returns the decoded stdout.
run_command(returncode, stdout) ==
    [raised |-> returncode # 0, out |-> stdout]

\* gitlog(fmt)
gitlog(returncode, fmt) == run_command(returncode, fmt)

IsFetch(line) == line.kind = "(fetch)"

\* The 'branch' expression of git_info.
branch_of(e, rev) ==
    Or(EnvGet(e, "CIRCLE_BRANCH"),
       Or(EnvGet(e, "APPVEYOR_REPO_BRANCH"),
          Or(EnvGet(e, "BUILDKITE_BRANCH"),
             Or(EnvGet(e, "CI_BRANCH"),
                EnvGetDefault(e, "TRAVIS_BRANCH", rev)))))

\* git_info(): raised when one of its subprocesses fails, else the dict.
git_info(e, g) ==
    LET rev == run_command(g.rev_parse, g.rev)
        remotes == run_command(g.remote, RemoteLines)
        head == gitlog(g.log, "%H")
        fetch == SelectSeq(remotes.out, IsFetch)
    IN  [raised |-> rev.raised \/ remotes.raised \/ head.raised,
         value |->
           [git |-> [head |-> [id |-> head.out],
                     branch |-> branch_of(e, rev.out),
                     remotes |-> [i \in 1..Len(fetch) |->
                                    [name |-> fetch[i].name, url |-> fetch[i].url]]]]]

\* ---------------------------------------------------------- get_coverage

\* Longest 'source_files' list a merged JSON file carries in the model.
MaxExtra == 2

\* Most report dicts one run of the model allocates.
MaxObjects == 2

\* The records CoverallReporter.report() can return.
CovFiles == << [name |-> "a.py", coverage |-> <<1>>],
               [name |-> "b.py", coverage |-> <<0>>] >>

\* One run of get_coverage: it raises coverage.CoverageException, or returns
\* the list of per-file records.
CovRuns == {[raised |-> TRUE, files |-> <<>>]}
           \cup {[raised |-> FALSE, files |-> SubSeq(CovFiles, 1, n)] : n \in 0..2}

CovOk == [raised |-> FALSE, files |-> <<>>]

\* The records a merged JSON file can carry: one has the name of a measured file.
ExtraFiles == {[name |-> "a.py", coverage |-> <<0>>],
               [name |-> "x.py", coverage |-> <<1>>]}

ExtraLists == UNION {[1..n -> ExtraFiles] : n \in 0..MaxExtra}

\* The JSON objects merge() reads.
Payloads == {<<>>, [random |-> "stuff"]}
            \cup {[source_files |-> x] : x \in ExtraLists}
            \cup {[source_files |-> <<>>, random |-> "stuff"]}

\* ----------------------------------------------------------- create_data

\* bool(d) of an optional dict
DictTruthy(d) == d # NoneObj /\ DOMAIN d # {}

\* bool(self._data)
DataTruthy(d) == d # NoneObj /\ DOMAIN d.d # {}

\* merge_extra that skips the records whose file name the report already has
merge_extra_by_name(d, extra) ==
    IF DictTruthy(extra) /\ "source_files" \in DOMAIN extra
    THEN LET have == {d["source_files"][i].name : i \in 1..Len(d["source_files"])}
             Fresh(f) == f.name \notin have
         IN  Set(d, "source_files",
                 d["source_files"] \o SelectSeq(extra["source_files"], Fresh))
    ELSE d

\* The report dict after the `if extra:` statement of create_data.
merge_extra(d, extra) ==
    IF DictTruthy(extra) /\ "source_files" \in DOMAIN extra
    THEN Set(d, "source_files", d["source_files"] \o extra["source_files"])
    ELSE d

\* merge_warns testing `extra is not None` in place of `extra`
merge_warns_not_none(extra) ==
    extra # NoneObj /\ "source_files" \notin DOMAIN extra

\* Whether the `if extra:` statement of create_data calls log.warning.
merge_warns(extra) ==
    DictTruthy(extra) /\ "source_files" \notin DOMAIN extra

\* create_data from its line `self._data = {...}` on: the report is built.
\* self._data is assigned before git_info() runs, so it stays assigned when
\* git_info() raises.
build_data(d, n, c, e, extra, cov, g) ==
    IF cov.raised
    THEN [data |-> d, allocs |-> n, outcome |-> "CoverageException",
          warned |-> FALSE, cov_called |-> TRUE, git_called |-> FALSE,
          cov_files |-> <<>>]
    ELSE LET d1 == [source_files |-> cov.files]
             gi == git_info(e, g)
         IN  IF gi.raised
             THEN [data |-> [id |-> n + 1, d |-> d1], allocs |-> n + 1,
                   outcome |-> "CoverallsException", warned |-> FALSE,
                   cov_called |-> TRUE, git_called |-> TRUE,
                   cov_files |-> cov.files]
             ELSE LET d2 == Update(d1, gi.value)
                      d3 == Update(d2, c)
                  IN  [data |-> [id |-> n + 1, d |-> merge_extra(d3, extra)],
                       allocs |-> n + 1, outcome |-> "return",
                       warned |-> merge_warns(extra),
                       cov_called |-> TRUE, git_called |-> TRUE,
                       cov_files |-> cov.files]

\* create_data without its `if self._data: return self._data`
create_data_uncached(d, n, c, e, extra, cov, g) ==
    build_data(d, n, c, e, extra, cov, g)

\* The outcome of create_data(extra): self._data and the number of allocated
\* dicts afterwards, how the call ended, whether log.warning was called and
\* which collaborators ran.  d is self._data, n the number of dicts
\* allocated, c self.config, cov and g the runs of the coverage engine and of
\* git the call would make.
create_data(d, n, c, e, extra, cov, g) ==
    IF DataTruthy(d)
    THEN [data |-> d, allocs |-> n, outcome |-> "return", warned |-> FALSE,
          cov_called |-> FALSE, git_called |-> FALSE, cov_files |-> <<>>]
    ELSE build_data(d, n, c, e, extra, cov, g)

\* --------------------------------------------- create_report, wear, save

\* What json.dumps(data) returns, as far as the callers of create_report
\* tell: a text that determines the dict.  The text itself is json_dumps.
JsonOf(d) == [json |-> d]

\* The outcome of create_report(): the outcome cd of its create_data() call,
\* how create_report itself ended, and the string it returned.  decodable is
\* FALSE when json.dumps raises UnicodeDecodeError.
create_report(d, n, c, e, cov, g, decodable) ==
    LET cd == create_data(d, n, c, e, NoneObj, cov, g)
    IN  [cd |-> cd,
         outcome |-> IF cd.outcome # "return" THEN cd.outcome
                     ELSE IF ~decodable THEN "UnicodeDecodeError"
                     ELSE "return",
         json_string |-> IF cd.outcome = "return" /\ decodable
                         THEN JsonOf(cd.data.d) ELSE NoneObj]

\* What the coveralls.io endpoint answers in the model: a JSON body or not.
Responses == {"json", "text"}

\* wear that posts before it looks at dry_run
wear_post_first(d, n, c, e, cov, g, decodable, dry_run, response) ==
    LET cr == create_report(d, n, c, e, cov, g, decodable)
    IN  IF cr.outcome = "CoverageException"
        THEN [cr |-> cr, outcome |-> "return", http |-> FALSE,
              value |-> [message |-> "Failure to gather coverage"]]
        ELSE IF cr.outcome # "return"
        THEN [cr |-> cr, outcome |-> cr.outcome, http |-> FALSE, value |-> NoneObj]
        ELSE [cr |-> cr, outcome |-> "return", http |-> TRUE,
              value |-> IF dry_run THEN <<>>
                        ELSE IF response = "json"
                        THEN [url |-> "https://coveralls.io/jobs/1"]
                        ELSE [message |-> "Failure to submit data"]]

\* The outcome of wear(dry_run): the outcome cr of its create_report() call,
\* how wear ended, what it returned and whether requests.post was called.
wear(d, n, c, e, cov, g, decodable, dry_run, response) ==
    LET cr == create_report(d, n, c, e, cov, g, decodable)
    IN  IF cr.outcome = "CoverageException"
        THEN [cr |-> cr, outcome |-> "return", http |-> FALSE,
              value |-> [message |-> "Failure to gather coverage"]]
        ELSE IF cr.outcome # "return"
        THEN [cr |-> cr, outcome |-> cr.outcome, http |-> FALSE, value |-> NoneObj]
        ELSE IF dry_run
        THEN [cr |-> cr, outcome |-> "return", http |-> FALSE, value |-> <<>>]
        ELSE [cr |-> cr, outcome |-> "return", http |-> TRUE,
              value |-> IF response = "json"
                        THEN [url |-> "https://coveralls.io/jobs/1"]
                        ELSE [message |-> "Failure to submit data"]]

\* The outcome of save_report(file_path): whether the report was written.
save_report(d, n, c, e, cov, g, decodable) ==
    LET cr == create_report(d, n, c, e, cov, g, decodable)
    IN  [cr |-> cr,
         outcome |-> IF cr.outcome = "CoverageException" THEN "return"
                     ELSE cr.outcome,
         written |-> cr.outcome = "return"]

\* ------------------------------------------------------------ the object

\* What the last call did, for the properties: the operation, how it ended,
\* the payload, self._data before (prev) and after (data), and whether an
\* earlier create_data call had already returned a report (later).
CallRet(op, o, cd, extra) ==
    [op |-> op, outcome |-> o, extra |-> extra, prev |-> _data,
     data |-> cd.data, cd_outcome |-> cd.outcome, warned |-> cd.warned,
     cov_called |-> cd.cov_called, git_called |-> cd.git_called,
     cov_files |-> cd.cov_files, later |-> first # NoneObj]

\* The runs of the coverage engine and of git a call can meet: they are
\* consulted only when no report is cached.
Runs == IF DataTruthy(_data) THEN {<<CovOk, GitOk>>} ELSE CovRuns \X GitRuns

CanCall == ctor = "ok" /\ allocs < MaxObjects

Frame == UNCHANGED <<env, args, ctor, config, _token_required, report,
                     json_string, log_string>>

Remember(cd) ==
    /\ _data' = cd.data
    /\ allocs' = cd.allocs
    /\ first' = IF first = NoneObj /\ cd.outcome = "return" THEN cd.data ELSE first

\* Coveralls(token_required, **kwargs)
Construct ==
    /\ ctor = "new"
    /\ LET r == __init__(args.token_required, args.file, args.kwargs, env)
       IN  /\ config' = r.config
           /\ _token_required' = r.token_required
           /\ ctor' = IF r.raised THEN "raised" ELSE "ok"
           /\ ret' = [op |-> "__init__",
                      outcome |-> IF r.raised THEN "CoverallsException" ELSE "return",
                      cov_called |-> FALSE, git_called |-> FALSE]
    /\ UNCHANGED <<env, args, _data, allocs, first, report, json_string, log_string>>

\* create_data(extra)
CreateData ==
    /\ CanCall
    /\ \E extra \in {NoneObj} \cup Payloads, run \in Runs :
         LET cd == create_data(_data, allocs, config, env, extra, run[1], run[2])
         IN  /\ Remember(cd)
             /\ ret' = CallRet("create_data", cd.outcome, cd, extra)
    /\ Frame

\* merge(path), the file at path holding the JSON object extra
Merge ==
    /\ CanCall
    /\ \E extra \in Payloads, run \in Runs :
         LET cd == create_data(_data, allocs, config, env, extra, run[1], run[2])
         IN  /\ Remember(cd)
             /\ ret' = CallRet("merge", cd.outcome, cd, extra)
    /\ Frame

\* create_report()
CreateReport ==
    /\ CanCall
    /\ \E run \in Runs, decodable \in BOOLEAN :
         LET cr == create_report(_data, allocs, config, env, run[1], run[2], decodable)
         IN  /\ Remember(cr.cd)
             /\ ret' = [CallRet("create_report", cr.outcome, cr.cd, NoneObj)
                          EXCEPT !.extra = cr.json_string]
    /\ Frame

\* wear(dry_run)
Wear ==
    /\ CanCall
    /\ \E run \in Runs, decodable \in BOOLEAN, dry_run \in BOOLEAN,
          response \in Responses :
         LET w == wear(_data, allocs, config, env, run[1], run[2], decodable,
                       dry_run, response)
         IN  /\ Remember(w.cr.cd)
             /\ ret' = [op |-> "wear", outcome |-> w.outcome, dry_run |-> dry_run,
                        http |-> w.http, value |-> w.value,
                        cr_outcome |-> w.cr.outcome, data |-> w.cr.cd.data,
                        cd_outcome |-> w.cr.cd.outcome, prev |-> _data,
                        cov_called |-> w.cr.cd.cov_called,
                        git_called |-> w.cr.cd.git_called,
                        later |-> first # NoneObj]
    /\ Frame

\* save_report(file_path)
SaveReport ==
    /\ CanCall
    /\ \E run \in Runs, decodable \in BOOLEAN :
         LET s == save_report(_data, allocs, config, env, run[1], run[2], decodable)
         IN  /\ Remember(s.cr.cd)
             /\ ret' = [op |-> "save_report", outcome |-> s.outcome,
                        written |-> s.written, data |-> s.cr.cd.data,
                        cd_outcome |-> s.cr.cd.outcome, prev |-> _data,
                        cov_called |-> s.cr.cd.cov_called,
                        git_called |-> s.cr.cd.git_called,
                        later |-> first # NoneObj]
    /\ Frame

\* The constructor calls of the object's life: with and without a token, with
\* a config file, on Travis and on no CI.
LifeArgs == {[token_required |-> TRUE, file |-> <<>>, kwargs |-> [repo_token |-> "ktok"]],
             [token_required |-> TRUE, file |-> [service_name |-> "fsvc"], kwargs |-> <<>>],
             [token_required |-> FALSE, file |-> <<>>, kwargs |-> <<>>]}

LifeEnvs == {EmptyEnv, EnvWith([TRAVIS |-> "true", TRAVIS_JOB_ID |-> "tj1"])}

NoSerializer == report = NoneObj /\ json_string = <<>> /\ log_string = <<>>

Init ==
    /\ env \in LifeEnvs
    /\ args \in LifeArgs
    /\ ctor = "new"
    /\ config = <<>>
    /\ _token_required = args.token_required
    /\ _data = NoneObj
    /\ allocs = 0
    /\ ret = [op |-> "none"]
    /\ first = NoneObj
    /\ NoSerializer

Next == Construct \/ CreateData \/ Merge \/ CreateReport \/ Wear \/ SaveReport

Spec == Init /\ [][Next]_vars

\* ------------------------------------------------- properties of the life

ReportOps == {"create_data", "merge", "create_report", "wear", "save_report"}

\* The last call reached the return of its create_data call.
Returned == ret.op \in ReportOps /\ ret.cd_outcome = "return"

\* The last call passed create_data a payload that has 'source_files'.
WithSourceFiles ==
    /\ ret.op \in {"create_data", "merge"}
    /\ "source_files" \in DOMAIN ret.extra

\* The last call passed create_data a payload that has no 'source_files'.
WithoutSourceFiles ==
    /\ ret.op \in {"create_data", "merge"}
    /\ ret.extra # NoneObj
    /\ "source_files" \notin DOMAIN ret.extra

\* 'source_files' of the report before the last call: the cached list, or,
\* when nothing was cached, what the extractor returned in the call.
SourceFilesBefore ==
    IF DataTruthy(ret.prev) THEN ret.prev.d["source_files"] ELSE ret.cov_files

\* C1: once a create_data call has returned a report, every later call
\* (create_data with or without a payload, merge, create_report, wear,
\* save_report) yields that same object with the same contents, and runs
\* neither the coverage extractor nor git again.
C1_Memoized ==
    (Returned /\ ret.later) =>
        /\ ret.data = first
        /\ _data = first
        /\ ~ret.cov_called
        /\ ~ret.git_called

\* C1 happens: a merge with a non-empty 'source_files' payload after a report
\* was returned.
C1_Witness ==
    /\ Returned /\ ret.later /\ ret.op = "merge"
    /\ WithSourceFiles /\ Len(ret.extra["source_files"]) > 0

\* C4 as amended: a payload with source_files = X given to the call that
\* builds the report leaves source_files = the extractor's list followed by
\* X (nothing removed, duplicates kept, lengths add up); given to a call that
\* finds a cached report it changes nothing.
C4_AppendedOnFirstBuild ==
    (Returned /\ WithSourceFiles) =>
        IF DataTruthy(ret.prev)
        THEN ret.data = ret.prev
        ELSE /\ ret.data.d["source_files"] = ret.cov_files \o ret.extra["source_files"]
             /\ Len(ret.data.d["source_files"])
                  = Len(ret.cov_files) + Len(ret.extra["source_files"])

\* C4 happens: the building call appends a record whose name is already there.
C4_Witness ==
    /\ Returned /\ WithSourceFiles /\ ~DataTruthy(ret.prev)
    /\ Len(ret.cov_files) > 0 /\ Len(ret.extra["source_files"]) > 0
    /\ ret.extra["source_files"][1].name = ret.cov_files[1].name

\* The report the last call returned has its git section: it is not the
\* half-built report of C9.
Complete == Returned /\ "git" \in DOMAIN ret.data.d

\* C4 as stated: whenever a payload has source_files = X, source_files
\* afterwards is the list before followed by X (here on complete reports).
C4_AppendedAlways ==
    (Complete /\ WithSourceFiles) =>
        ret.data.d["source_files"] = SourceFilesBefore \o ret.extra["source_files"]

\* C5 as amended: a payload without 'source_files' leaves source_files as it
\* was, and the warning is logged exactly when the payload is a non-empty
\* object and the call is the one that builds the report.
C5_UnchangedWarnsIfNonEmpty ==
    (Returned /\ WithoutSourceFiles) =>
        /\ ret.data.d["source_files"] = SourceFilesBefore
        /\ ret.warned <=> (DOMAIN ret.extra # {} /\ ~DataTruthy(ret.prev))

\* C5 happens: the empty JSON object is merged by the building call.
C5_Witness ==
    /\ Returned /\ WithoutSourceFiles /\ ret.op = "merge"
    /\ ret.extra = <<>> /\ ~DataTruthy(ret.prev) /\ Len(ret.cov_files) > 0

\* C5 as stated: a payload without 'source_files', the empty object
\* included, leaves source_files unchanged and logs a warning (here on
\* complete reports).
C5_AlwaysWarns ==
    (Complete /\ WithoutSourceFiles) =>
        /\ ret.data.d["source_files"] = SourceFilesBefore
        /\ ret.warned

\* C6 as amended: wear(dry_run=True) never posts; it returns {} exactly when
\* create_report succeeded, returns the 'Failure to gather coverage' message
\* when the coverage engine raised, and raises what create_report raised
\* otherwise.
C6_DryRunNoPost ==
    (ret.op = "wear" /\ ret.dry_run) =>
        /\ ~ret.http
        /\ ret.cr_outcome = "return" =>
             (ret.outcome = "return" /\ ret.value = <<>>)
        /\ ret.cr_outcome = "CoverageException" =>
             (ret.outcome = "return"
              /\ ret.value = [message |-> "Failure to gather coverage"])
        /\ ret.cr_outcome \notin {"return", "CoverageException"} =>
             ret.outcome = ret.cr_outcome

\* C6 happens: a dry run on a report that was built.
C6_Witness ==
    /\ ret.op = "wear" /\ ret.dry_run /\ ret.cr_outcome = "return"
    /\ ret.cov_called

\* C6 as stated: wear(dry_run=True) posts nothing and returns {} whatever the
\* coverage engine does (git and the encoder working).
C6_DryRunAlwaysEmpty ==
    (ret.op = "wear" /\ ret.dry_run
       /\ ret.cr_outcome \in {"return", "CoverageException"}) =>
        /\ ~ret.http
        /\ ret.outcome = "return"
        /\ ret.value = <<>>

\* C9: no report without the git section and the configuration fields is
\* ever returned, whatever git did in earlier calls.
C9_NoPartialReport ==
    Returned =>
        /\ "git" \in DOMAIN ret.data.d
        /\ "service_name" \in DOMAIN ret.data.d

\* ------------------------------------------- the CI environment detector

\* The providers in the order of the documentation: marker variable, service
\* name, job id variable.
Providers == << [marker |-> "APPVEYOR", name |-> "appveyor", job |-> "APPVEYOR_BUILD_ID"],
                [marker |-> "BUILDKITE", name |-> "buildkite", job |-> "BUILDKITE_JOB_ID"],
                [marker |-> "CIRCLECI", name |-> "circle-ci", job |-> "CIRCLE_BUILD_NUM"],
                [marker |-> "TRAVIS", name |-> "travis-ci", job |-> "TRAVIS_JOB_ID"] >>

MarkerVars == {Providers[i].marker : i \in DOMAIN Providers}
JobVars == {Providers[i].job : i \in DOMAIN Providers}

\* The values of the variables in the model: each job id variable has a value
\* of its own.
ValueOf(v) == CASE v = "APPVEYOR_BUILD_ID" -> "av1"
                [] v = "BUILDKITE_JOB_ID" -> "bk1"
                [] v = "CIRCLE_BUILD_NUM" -> "cc1"
                [] v = "TRAVIS_JOB_ID" -> "tj1"
                [] v = "APPVEYOR_PULL_REQUEST_NUMBER" -> "12"
                [] v = "CI_PULL_REQUEST" -> "https://github.com/o/r/pull/7"
                [] v = "COVERALLS_REPO_TOKEN" -> "etok"
                [] v = "CIRCLE_BRANCH" -> "cc-br"
                [] v = "APPVEYOR_REPO_BRANCH" -> "av-br"
                [] v = "BUILDKITE_BRANCH" -> "bk-br"
                [] v = "CI_BRANCH" -> "ci-br"
                [] v = "TRAVIS_BRANCH" -> "tr-br"
                [] OTHER -> "True"

\* unset, set to the empty string, set to its value
Settings == {"unset", "empty", "set"}

Setting(v, how) == CASE how = "unset" -> None
                     [] how = "empty" -> ""
                     [] OTHER -> ValueOf(v)

\* The environments that set the variables of vs, each in one of the ways hows.
EnvsOver(vs, hows) ==
    {[v \in EnvVars |-> IF v \in vs THEN Setting(v, f[v]) ELSE None] : f \in [vs -> hows]}

CiEnvs == EnvsOver(MarkerVars \cup JobVars, Settings)

InitCi ==
    /\ env \in CiEnvs
    /\ args = [token_required |-> TRUE, file |-> <<>>, kwargs |-> <<>>]
    /\ ctor = "ok"
    /\ config = <<>>
    /\ _token_required \in BOOLEAN
    /\ _data = NoneObj
    /\ allocs = 0
    /\ ret = [op |-> "none"]
    /\ first = NoneObj
    /\ NoSerializer

\* self.load_config_from_ci_environment()
DetectCi ==
    /\ ret.op = "none"
    /\ LET r == load_config_from_ci_environment(_token_required, env)
       IN  /\ ret' = [op |-> "load_config_from_ci_environment", value |-> r.value]
           /\ _token_required' = r.token_required
    /\ UNCHANGED <<env, args, ctor, config, _data, allocs, first, report,
                   json_string, log_string>>

SpecCi == InitCi /\ [][DetectCi]_vars

\* The index in Providers of the first provider whose marker is set and not
\* empty in e, 0 when there is none.
Detected(e) ==
    LET hits == {i \in DOMAIN Providers : Truthy(e[Providers[i].marker])}
    IN  IF hits = {} THEN 0 ELSE CHOOSE i \in hits : \A j \in hits : i <= j

\* C3: load_config_from_ci_environment returns the service name of the first
\* provider (AppVeyor, Buildkite, CircleCI, Travis) whose marker is set and
\* not empty, with the job id read from that provider's own variable, and
\* ('coveralls-python', None, None) when there is none.
C3_FirstProviderWins ==
    ret.op = "load_config_from_ci_environment" =>
        LET i == Detected(env)
        IN  IF i = 0
            THEN ret.value = <<"coveralls-python", None, None>>
            ELSE /\ ret.value[1] = Providers[i].name
                 /\ ret.value[2] = env[Providers[i].job]

\* C3 happens: AppVeyor is detected while Travis' marker and job id are set too.
C3_Witness ==
    /\ ret.op = "load_config_from_ci_environment"
    /\ Truthy(env["APPVEYOR"]) /\ Truthy(env["TRAVIS"])
    /\ Truthy(env["TRAVIS_JOB_ID"]) /\ env["APPVEYOR_BUILD_ID"] = None
    /\ ret.value[1] = "appveyor"

\* ------------------------------------------------------- the constructor

\* Most configuration keys the config file and the keyword arguments supply
\* together in one constructor call of the model.
MaxCfgKeys == 2

CfgKeys == {"repo_token", "service_name", "service_job_id",
            "service_pull_request", "parallel", "config_file"}

\* What the config file of the model gives each key.
FileValues == [repo_token |-> "ftok", service_name |-> "fsvc",
               service_job_id |-> "fjob", service_pull_request |-> "fpr",
               config_file |-> ".frc"]

\* What the keyword arguments of the model give each key.
KwValues == [repo_token |-> "ktok", service_name |-> "ksvc",
             service_job_id |-> "kjob", service_pull_request |-> "kpr",
             config_file |-> ".krc"]

\* The dicts over at most n keys, valued by V, 'parallel' False, and with the
\* empty repo_token too.
DictsOver(V, n) ==
    LET base == {[k \in S |-> IF k = "parallel" THEN FALSE ELSE V[k]] :
                   S \in {T \in SUBSET CfgKeys : Cardinality(T) <= n}}
    IN  base \cup {Set(d, "repo_token", "") :
                     d \in {b \in base : "repo_token" \in DOMAIN b}}

CtorArgs ==
    {[token_required |-> t, file |-> f, kwargs |-> k] :
       t \in BOOLEAN,
       <<f, k>> \in {p \in DictsOver(FileValues, MaxCfgKeys) \X DictsOver(KwValues, MaxCfgKeys) :
                       Cardinality(DOMAIN p[1]) + Cardinality(DOMAIN p[2]) <= MaxCfgKeys}}

\* The environments of the constructor: any set of markers, the token unset,
\* empty or set, COVERALLS_PARALLEL unset, TRUE or false, the job ids all set
\* or all unset, the pull request variables all set or all unset.
CtorEnvs ==
    {[v \in EnvVars |->
        IF v \in MarkerVars THEN (IF v \in m THEN "True" ELSE None)
        ELSE IF v = "COVERALLS_REPO_TOKEN" THEN Setting(v, tok)
        ELSE IF v = "COVERALLS_PARALLEL" THEN par
        ELSE IF v \in JobVars THEN Setting(v, job)
        ELSE IF v \in {"APPVEYOR_PULL_REQUEST_NUMBER", "CI_PULL_REQUEST"}
             THEN Setting(v, pr)
        ELSE None] :
       m \in SUBSET MarkerVars, tok \in Settings, par \in {None, "TRUE", "false"},
       job \in {"unset", "set"}, pr \in {"unset", "set"}}

InitCtor ==
    /\ env \in CtorEnvs
    /\ args \in CtorArgs
    /\ ctor = "new"
    /\ config = <<>>
    /\ _token_required = args.token_required
    /\ _data = NoneObj
    /\ allocs = 0
    /\ ret = [op |-> "none"]
    /\ first = NoneObj
    /\ NoSerializer

SpecCtor == InitCtor /\ [][Construct]_vars

\* C2: the constructor raises exactly when the combined configuration has no
\* (or an empty) repo_token, the caller passed token_required=True and the
\* detected provider is neither CircleCI nor Travis; it raises before the
\* coverage extractor or git ran and before any report exists.
C2_RaisesExactlyWhen ==
    ctor # "new" =>
        /\ ctor = "raised" <=>
             /\ ~Truthy(Get(config, "repo_token", None))
             /\ args.token_required
             /\ Detected(env) \notin {3, 4}
        /\ ctor = "raised" =>
             (_data = NoneObj /\ allocs = 0 /\ ~ret.cov_called /\ ~ret.git_called)

\* C2 happens: the constructor raises with Travis' marker set, because
\* AppVeyor is detected first.
C2_Witness ==
    /\ ctor = "raised"
    /\ Truthy(env["APPVEYOR"]) /\ Truthy(env["TRAVIS"])

\* The pull request id the detected provider gives, None when it gives none.
DetectedPr(e) ==
    CASE Detected(e) = 1 -> e["APPVEYOR_PULL_REQUEST_NUMBER"]
      [] Detected(e) = 3 -> IF e["CI_PULL_REQUEST"] = None THEN None
                            ELSE LastSegment(e["CI_PULL_REQUEST"])
      [] OTHER -> None

\* The values the environment gives configuration key k: none or one.
EnvDerived(k, e) ==
    CASE k = "repo_token" ->
           IF Truthy(e["COVERALLS_REPO_TOKEN"]) THEN {e["COVERALLS_REPO_TOKEN"]} ELSE {}
      [] k = "parallel" ->
           IF e["COVERALLS_PARALLEL"] \in {"true", "TRUE", "True"} THEN {TRUE} ELSE {}
      [] k = "service_job_id" ->
           IF Detected(e) # 0 /\ Truthy(e[Providers[Detected(e)].job])
           THEN {e[Providers[Detected(e)].job]} ELSE {}
      [] k = "service_pull_request" ->
           IF Truthy(DetectedPr(e)) THEN {DetectedPr(e)} ELSE {}
      [] OTHER -> {}

\* C7 as amended: a key of the config file is overridden by the environment
\* for repo_token, parallel, service_job_id and service_pull_request, else by
\* a keyword argument for the same key; with neither the file's value is
\* held.  service_name is never taken from the detected provider when the
\* file or a keyword argument supplies it.
C7_FileLowestButServiceName ==
    ctor = "ok" =>
        \A k \in DOMAIN args.file :
            IF EnvDerived(k, env) # {} THEN config[k] \in EnvDerived(k, env)
            ELSE IF k \in DOMAIN args.kwargs THEN config[k] = args.kwargs[k]
            ELSE config[k] = args.file[k]

\* C7 happens: the file supplies service_name and a provider is detected.
C7_Witness ==
    /\ ctor = "ok"
    /\ "service_name" \in DOMAIN args.file
    /\ "service_name" \notin DOMAIN args.kwargs
    /\ Detected(env) # 0

\* C7 as stated: whenever a key of the file is also supplied by a keyword
\* argument or derived from the environment (the detected provider's service
\* name included), the configuration holds one of those values.
C7_FileAlwaysOverridden ==
    ctor = "ok" =>
        \A k \in DOMAIN args.file :
            LET others == EnvDerived(k, env)
                          \cup (IF k \in DOMAIN args.kwargs THEN {args.kwargs[k]} ELSE {})
                          \cup (IF k = "service_name" /\ Detected(env) # 0
                                THEN {Providers[Detected(env)].name} ELSE {})
            IN  others # {} => config[k] \in others

\* ---------------------------------------------------- the branch of git_info

BranchVars == <<"CIRCLE_BRANCH", "APPVEYOR_REPO_BRANCH", "BUILDKITE_BRANCH",
                "CI_BRANCH", "TRAVIS_BRANCH">>

BranchEnvs == EnvsOver({BranchVars[i] : i \in DOMAIN BranchVars}, Settings)

InitBranch ==
    /\ env \in BranchEnvs
    /\ args = [token_required |-> TRUE, file |-> <<>>, kwargs |-> <<>>]
    /\ ctor = "ok"
    /\ config = <<>>
    /\ _token_required = TRUE
    /\ _data = NoneObj
    /\ allocs = 0
    /\ ret = [op |-> "none"]
    /\ first = NoneObj
    /\ NoSerializer

\* Coveralls.git_info()
GitInfo ==
    /\ ret.op = "none"
    /\ \E g \in GitRuns :
         LET gi == git_info(env, g)
         IN  ret' = [op |-> "git_info",
                     outcome |-> IF gi.raised THEN "CoverallsException" ELSE "return",
                     value |-> gi.value, rev |-> g.rev]
    /\ UNCHANGED <<env, args, ctor, config, _token_required, _data, allocs,
                   first, report, json_string, log_string>>

SpecBranch == InitBranch /\ [][GitInfo]_vars

\* C10: the branch of git_info is the first non-empty value among
\* CIRCLE_BRANCH, APPVEYOR_REPO_BRANCH, BUILDKITE_BRANCH, CI_BRANCH,
\* TRAVIS_BRANCH, and the branch rev-parse reports when none is non-empty.
C10_FirstNonEmptyBranch ==
    (ret.op = "git_info" /\ ret.outcome = "return") =>
        LET hits == {i \in DOMAIN BranchVars : Truthy(env[BranchVars[i]])}
            i == CHOOSE i \in hits : \A j \in hits : i <= j
        IN  ret.value.git.branch = IF hits = {} THEN ret.rev ELSE env[BranchVars[i]]

\* ---------------------------------------------------------- the serializer

\* Text is a sequence of characters.  A JSON value is a record tagged by t:
\* a string, null, an integer, a list of values, or a dict, which is the
\* sequence of its key/value items in insertion order.
JStr(s) == [t |-> "str", s |-> s]
JNull == [t |-> "null"]
JInt(n) == [t |-> "int", n |-> n]
JList(items) == [t |-> "list", items |-> items]
JDict(items) == [t |-> "dict", items |-> items]

Quote == "\""
Backslash == "\\"

Digits == <<"0", "1", "2", "3", "4", "5", "6", "7", "8", "9">>

RECURSIVE IntChars(_)
IntChars(n) == IF n < Len(Digits) THEN <<Digits[n + 1]>>
               ELSE IntChars(n \div Len(Digits)) \o <<Digits[(n % Len(Digits)) + 1]>>

\* json.dumps of the characters of a str: quotes and backslashes are escaped.
RECURSIVE Escape(_)
Escape(s) ==
    IF s = <<>> THEN <<>>
    ELSE (IF Head(s) \in {Quote, Backslash} THEN <<Backslash, Head(s)>> ELSE <<Head(s)>>)
         \o Escape(Tail(s))

\* json.dumps(v): items are separated by ', ' and keys from values by ': '.
RECURSIVE json_dumps(_)
RECURSIVE DumpItems(_, _)
DumpItems(items, dict) ==
    IF items = <<>> THEN <<>>
    ELSE (IF dict
          THEN <<Quote>> \o Escape(Head(items).k) \o <<Quote, ":", " ">>
               \o json_dumps(Head(items).v)
          ELSE json_dumps(Head(items)))
         \o (IF Len(items) > 1 THEN <<",", " ">> ELSE <<>>)
         \o DumpItems(Tail(items), dict)

json_dumps(v) ==
    CASE v.t = "str" -> <<Quote>> \o Escape(v.s) \o <<Quote>>
      [] v.t = "null" -> <<"n", "u", "l", "l">>
      [] v.t = "int" -> IntChars(v.n)
      [] v.t = "list" -> <<"[">> \o DumpItems(v.items, FALSE) \o <<"]">>
      [] v.t = "dict" -> <<"{">> \o DumpItems(v.items, TRUE) \o <<"}">>

\* The pattern of the re.sub of create_report up to its group, and the
\* replacement.
TokenPattern == <<"\"", "r", "e", "p", "o", "_", "t", "o", "k", "e", "n", "\"", ":", " ", "\"">>
TokenReplacement == <<"\"", "r", "e", "p", "o", "_", "t", "o", "k", "e", "n", "\"", ":", " ", "\"", "[", "s", "e", "c", "u", "r", "e", "]", "\"">>
Secure == <<"[", "s", "e", "c", "u", "r", "e", "]">>

\* p occurs in s at position i
OccursAt(s, i, p) ==
    /\ i >= 1
    /\ i + Len(p) - 1 <= Len(s)
    /\ \A k \in 1..Len(p) : s[i + k - 1] = p[k]

\* p occurs in s
Contains(s, p) == \E i \in 1..Len(s) : OccursAt(s, i, p)

\* match_end with a greedy group: (.+)
match_end_greedy(s, i) ==
    IF ~OccursAt(s, i, TokenPattern) THEN 0
    ELSE LET from == i + Len(TokenPattern)
             ends == {j \in (from + 1)..Len(s) :
                        /\ s[j] = Quote
                        /\ \A k \in from..(j - 1) : s[k] # "\n"}
         IN  IF ends = {} THEN 0 ELSE CHOOSE j \in ends : \A k \in ends : k <= j

\* Where the match of "repo_token": "(.+?)" that starts at i ends in s, 0
\* when there is none there: the group takes one character or more, none of
\* them a newline, and as few as possible up to a quote.
match_end(s, i) ==
    IF ~OccursAt(s, i, TokenPattern) THEN 0
    ELSE LET from == i + Len(TokenPattern)
             ends == {j \in (from + 1)..Len(s) :
                        /\ s[j] = Quote
                        /\ \A k \in from..(j - 1) : s[k] # "\n"}
         IN  IF ends = {} THEN 0 ELSE CHOOSE j \in ends : \A k \in ends : j <= k

\* re.sub(r'"repo_token": "(.+?)"', '"repo_token": "[secure]"', s) from
\* position i on: the matches are replaced from left to right.
RECURSIVE re_sub(_, _)
re_sub(s, i) ==
    LET starts == {j \in i..Len(s) : match_end(s, j) > 0}
        j == CHOOSE j \in starts : \A k \in starts : j <= k
    IN  IF starts = {} THEN SubSeq(s, i, Len(s))
        ELSE SubSeq(s, i, j - 1) \o TokenReplacement \o re_sub(s, match_end(s, j) + 1)

\* Longest repo_token and longest source text of the serializer's reports.
MaxText == 2

\* The characters of those texts: one that occurs nowhere else in the
\* report, one that does, the quote and the backslash.
Alphabet == {"x", "e", Quote, Backslash}

Texts(lo) == UNION {[1..n -> Alphabet] : n \in lo..MaxText}

K_source_files == <<"s", "o", "u", "r", "c", "e", "_", "f", "i", "l", "e", "s">>
K_name == <<"n", "a", "m", "e">>
K_source == <<"s", "o", "u", "r", "c", "e">>
K_coverage == <<"c", "o", "v", "e", "r", "a", "g", "e">>
K_git == <<"g", "i", "t">>
K_branch == <<"b", "r", "a", "n", "c", "h">>
K_repo_token == <<"r", "e", "p", "o", "_", "t", "o", "k", "e", "n">>
K_service_name == <<"s", "e", "r", "v", "i", "c", "e", "_", "n", "a", "m", "e">>

\* The report create_data builds for one measured file of text source and
\* the configuration repo_token, service_name (git cut down to its branch).
ReportOf(token, source) ==
    JDict(<< [k |-> K_source_files,
              v |-> JList(<< JDict(<< [k |-> K_name, v |-> JStr(<<"a">>)],
                                      [k |-> K_source, v |-> JStr(source)],
                                      [k |-> K_coverage,
                                       v |-> JList(<<JInt(1), JNull>>)] >>) >>)],
             [k |-> K_git, v |-> JDict(<< [k |-> K_branch, v |-> JStr(<<"m">>)] >>)],
             [k |-> K_repo_token, v |-> JStr(token)],
             [k |-> K_service_name, v |-> JStr(<<"c">>)] >>)

\* data['repo_token'] and the source text of the measured file
TokenOf(r) == r.items[3].v.s
SourceOf(r) == r.items[1].v.items[1].items[2].v.s

InitReport ==
    /\ env = EmptyEnv
    /\ args = [token_required |-> TRUE, file |-> <<>>, kwargs |-> <<>>]
    /\ ctor = "ok"
    /\ config = <<>>
    /\ _token_required = TRUE
    /\ _data = NoneObj
    /\ allocs = 0
    /\ ret = [op |-> "none"]
    /\ first = NoneObj
    /\ report \in {ReportOf(token, source) : token \in Texts(1), source \in Texts(0)}
    /\ json_string = <<>>
    /\ log_string = <<>>

\* create_report() from json.dumps(data) on, data being the report
SerializeReport ==
    /\ ret.op = "none"
    /\ json_string' = json_dumps(report)
    /\ log_string' = re_sub(json_string', 1)
    /\ ret' = [op |-> "create_report", outcome |-> "return"]
    /\ UNCHANGED <<env, args, ctor, config, _token_required, _data, allocs,
                   first, report>>

SpecReport == InitReport /\ [][SerializeReport]_vars

Serialized == ret.op = "create_report"

\* The report with '[secure]' as its repo_token.
Redacted == ReportOf(Secure, SourceOf(report))

\* The characters of t after its first quote.
RECURSIVE AfterQuote(_)
AfterQuote(s) == IF s = <<>> THEN <<>>
                 ELSE IF Head(s) = Quote THEN Tail(s)
                 ELSE AfterQuote(Tail(s))

HasQuote(s) == \E i \in 1..Len(s) : s[i] = Quote

\* C8 as amended: for a repo_token t without a double quote the logged text
\* is the serialized report with '[secure]' in place of t, so it holds t
\* only where t occurs outside the repo_token field; for a t with a double
\* quote the characters after the first quote of t stay in the log.  The
\* returned string carries t, JSON-escaped, in its repo_token field.
C8_RedactsTokenField ==
    Serialized =>
        /\ Contains(json_string, TokenPattern \o Escape(TokenOf(report)) \o <<Quote>>)
        /\ Contains(log_string, Secure)
        /\ ~HasQuote(TokenOf(report)) => log_string = json_dumps(Redacted)
        /\ HasQuote(TokenOf(report)) =>
             Contains(log_string,
                      TokenReplacement \o Escape(AfterQuote(TokenOf(report)))
                        \o <<Quote>>)

\* C8 happens: a token that occurs nowhere else is logged as [secure].
C8_Witness ==
    /\ Serialized
    /\ TokenOf(report) = <<"x", "x">>
    /\ SourceOf(report) = <<"e">>
    /\ ~Contains(log_string, TokenOf(report))

\* C8 as stated: the logged text holds the token nowhere and holds [secure]
\* (here for the tokens made of a character that the keys, the other values
\* and '[secure]' do not have).
C8_TokenNowhereInLog ==
    (Serialized /\ \A i \in 1..Len(TokenOf(report)) : TokenOf(report)[i] = "x") =>
        /\ ~Contains(log_string, TokenOf(report))
        /\ Contains(log_string, Secure)

====
